---- MODULE Spec2Model ----
(***************************************************************************)
(* Model of the order-execution service: the HTTP submit handler, the      *)
(* BullMQ queue and worker configured by QueueService, the processOrder    *)
(* pipeline with one step per await, the permanent-failure handler, the    *)
(* Redis cache (active order, order progress, websocket registrations),    *)
(* the Postgres order record, the WebSocketService and the MockDexRouter.  *)
(*                                                                         *)
(* Units: prices are in hundredths (100 = 1.00), fees in thousandths       *)
(* (3 = 0.003), slippages in basis points (500 = 0.05 = 5.00%).  The       *)
(* arithmetic is exact rational arithmetic on these units.                 *)
(***************************************************************************)
EXTENDS Integers, Sequences, FiniteSets, TLC

(***************************************************************************)
(* Bounds of the model.                                                    *)
(***************************************************************************)
NumOrders == 11          \* order ids 1..NumOrders exist
MaxAddCalls == 2         \* addOrderJob calls counted per order id
MaxConns == 1            \* websocket connections that may be opened

(***************************************************************************)
(* Program constants.                                                      *)
(***************************************************************************)
MAX_CONCURRENT_ORDERS == 10
MAX_RETRY_ATTEMPTS == 3
defaultMaxSlippage == 200       \* 0.02
RaydiumFee == 3                 \* 0.003
MeteorFee == 2                  \* 0.002

Orders == 1..NumOrders
Conns == 1..MaxConns
\* Job id 0 stands for an id the queue generates itself when the caller
\* passes no jobId option; every other job id is the order id it was given.
JobIds == 0..NumOrders

PENDING == "pending"
ROUTING == "routing"
BUILDING == "building"
SUBMITTED == "submitted"
CONFIRMED == "confirmed"
FAILED == "failed"
OrderStatus == {PENDING, ROUTING, BUILDING, SUBMITTED, CONFIRMED, FAILED}

\* maxSlippage?: number  --  Undefined models the absent optional field.
Undefined == -1

(***************************************************************************)
(* Values the venue and the callers may produce.                           *)
(***************************************************************************)
\* Quotes and executions the pipeline sees in Spec.
RaydiumPrices == {100}
MeteorPrices == {99, 100}
ExecPrices == {95, 103, 106}
RequestSlippages == {Undefined, 500}
\* Inputs of the router functions in SpecRouter.
RouterPrices == 97..102
RouterFees == {0, 2, 3}
RouterAmounts == {1, 100}
RouterExecPrices == 95..106
RouterSlippages == {Undefined, 0, 100, 500}

(***************************************************************************)
(* MockDexRouter (src/src/index.ts).                                       *)
(***************************************************************************)
Quote(price, fee) == [price |-> price, fee |-> fee]
NoQuote == [dex |-> "none", quote |-> Quote(0, 0)]

\* (amount - amount * fee) * price, scaled by 1000 * 100.
OutputAfterFee(amount, q) == (amount * 1000 - amount * q.fee) * q.price

RaydiumWins_Min(raydiumOutput, meteorOutput) == raydiumOutput < meteorOutput
RaydiumWins(raydiumOutput, meteorOutput) == raydiumOutput > meteorOutput

getBestQuote(amount, raydiumQuote, meteorQuote) ==
    IF RaydiumWins(OutputAfterFee(amount, raydiumQuote),
                   OutputAfterFee(amount, meteorQuote))
    THEN [dex |-> "Raydium", quote |-> raydiumQuote]
    ELSE [dex |-> "Meteor", quote |-> meteorQuote]

\* maxSlippage || this.defaultMaxSlippage : undefined and 0 are both falsy.
MaxAllowedSlippage(maxSlippage) ==
    IF maxSlippage = Undefined \/ maxSlippage = 0
    THEN defaultMaxSlippage ELSE maxSlippage

\* (x * 100).toFixed(2) of the fraction num/den, as an integer number of
\* hundredths of a percent: round(num * 10000 / den), halves rounded up.
PercentFixed2(num, den) == (2 * num * 10000 + den) \div (2 * den)

\* The slippage decision of executeBestSwapWithQuote: TRUE when it throws.
\* Checked only when executedPrice > quote.price; then
\* slippage > maxAllowed  <=>  (exec - quote) * 10000 > maxAllowedBp * quote
SlippageRejected_Abs(quotePrice, executedPrice, maxSlippage) ==
    LET d == IF executedPrice > quotePrice THEN executedPrice - quotePrice
             ELSE quotePrice - executedPrice
    IN d * 10000 > MaxAllowedSlippage(maxSlippage) * quotePrice
SlippageRejected(quotePrice, executedPrice, maxSlippage) ==
    /\ executedPrice > quotePrice
    /\ (executedPrice - quotePrice) * 10000
          > MaxAllowedSlippage(maxSlippage) * quotePrice

\* Error messages: the kind of error, the two percentages a slippage message
\* embeds, and whether handlePermanentFailure prefixed it.
NoError == [kind |-> "none", slippage |-> 0, maxAllowed |-> 0, permanent |-> FALSE]
ErrorOf(kind) == [kind |-> kind, slippage |-> 0, maxAllowed |-> 0, permanent |-> FALSE]
\* `Slippage ${(slippage*100).toFixed(2)}% exceeds maximum allowed ${(max*100).toFixed(2)}%`
SlippageError(quotePrice, executedPrice, maxSlippage) ==
    [kind |-> "slippage",
     slippage |-> PercentFixed2(executedPrice - quotePrice, quotePrice),
     maxAllowed |-> PercentFixed2(MaxAllowedSlippage(maxSlippage), 10000),
     permanent |-> FALSE]

\* Math.abs((executedPrice - quotePrice) / quotePrice), in basis points (floor).
AbsSlippage(quotePrice, executedPrice) ==
    LET d == IF executedPrice > quotePrice THEN executedPrice - quotePrice
             ELSE quotePrice - executedPrice
    IN (d * 10000) \div quotePrice

(***************************************************************************)
(* State.  Every map holds only the keys that exist: a job id is in        *)
(* DOMAIN jobs once the queue holds a job with that id, an order id is in  *)
(* DOMAIN orderProgress while Redis holds order_progress:<orderId>, ...    *)
(***************************************************************************)
VARIABLES
    jobs,            \* the queue's jobs: state, data and attemptsMade per job id
    waiting,         \* the queue's wait list, in the order jobs are picked up
    proc,            \* processOrder's position and locals, per executing job
    hpf,             \* handlePermanentFailure's position, per job it runs for
    activeOrders,    \* Redis active_orders:<orderId>: the order ids present
    orderProgress,   \* Redis order_progress:<orderId>
    wsConnections,   \* Redis ws_connections:<orderId>
    db,              \* the orders table
    connections,     \* WebSocketService.connections and what each socket got
    cacheLog,        \* statuses written to the cache up to and in this attempt
    dbLog,           \* statuses written to the table up to and in this attempt
    attemptsStarted, \* processOrder invocations per order id
    addCalls,        \* addOrderJob calls per order id
    router,          \* a MockDexRouter call and its result (SpecRouter)
    query,           \* the last GET /api/orders/:orderId and its response
    submit,          \* the execute handlers between two of their awaits
    abandoned        \* venue calls that lost the race against withTimeout's timer

vars == <<jobs, waiting, proc, hpf, activeOrders, orderProgress, wsConnections,
          db, connections, cacheLog, dbLog, attemptsStarted, addCalls, router,
          query, submit, abandoned>>

queueVars == <<jobs, waiting, proc, hpf>>
cacheVars == <<activeOrders, orderProgress>>
wsVars == <<wsConnections, connections>>
histVars == <<cacheLog, dbLog, attemptsStarted, addCalls>>

RequestAmounts == {100}

Empty == <<>>
Put(f, k, v) == (k :> v) @@ f
Del(f, k) == [x \in DOMAIN f \ {k} |-> f[x]]

Progress(status, dex, attempts, willRetry, finalAttempt, error) ==
    [status |-> status, dex |-> dex, attempts |-> attempts,
     willRetry |-> willRetry, finalAttempt |-> finalAttempt, error |-> error]
NewRecord_Routing ==
    [status |-> ROUTING, max_slippage |-> 0, quote_dex |-> "none",
     quote_price |-> 0, tx_hash |-> FALSE, executed_price |-> 0,
     slippage |-> Undefined, error_message |-> NoError, attempts |-> 1,
     failure_reason |-> NoError]
NewRecord == [status |-> PENDING, max_slippage |-> 0, quote_dex |-> "none",
              quote_price |-> 0, tx_hash |-> FALSE, executed_price |-> 0,
              slippage |-> Undefined, error_message |-> NoError, attempts |-> 1,
              failure_reason |-> NoError]
NewProc_MidStage == [pc |-> "submittedCache", bestQuote |-> NoQuote,
                     executedPrice |-> 0, error |-> NoError]
NewProc == [pc |-> "routingCache", bestQuote |-> NoQuote, executedPrice |-> 0,
            error |-> NoError]
NoRouterCall == [op |-> "none", amount |-> 0, raydiumQuote |-> Quote(0, 0),
                 meteorQuote |-> Quote(0, 0), best |-> NoQuote,
                 executedPrice |-> 0, maxSlippage |-> Undefined,
                 outcome |-> "none", error |-> NoError]

NoQuery == [orderId |-> 0, source |-> "none", code |-> 0, status |-> "none",
            error |-> NoError]

Init ==
    /\ jobs = Empty
    /\ waiting = <<>>
    /\ proc = Empty
    /\ hpf = Empty
    /\ activeOrders = {}
    /\ orderProgress = Empty
    /\ wsConnections = Empty
    /\ db = Empty
    /\ connections = Empty
    /\ cacheLog = Empty
    /\ dbLog = Empty
    /\ attemptsStarted = Empty
    /\ addCalls = Empty
    /\ router = NoRouterCall
    /\ query = NoQuery
    /\ submit = Empty
    /\ abandoned = Empty

(***************************************************************************)
(* QueueService: the queue and worker options, addOrderJob.                *)
(***************************************************************************)
\* jobId: orderId
AddJobId_Auto(orderId) == IF orderId \in DOMAIN jobs THEN 0 ELSE orderId
AddJobId(orderId) == orderId

\* attempts: this.MAX_RETRY_ATTEMPTS
JobAttempts_More == MAX_RETRY_ATTEMPTS + 1
JobAttempts == MAX_RETRY_ATTEMPTS

\* concurrency: this.MAX_CONCURRENT_ORDERS
WorkerConcurrency_More == MAX_CONCURRENT_ORDERS + 1
WorkerConcurrency == MAX_CONCURRENT_ORDERS

JobsIn(state) == {j \in DOMAIN jobs : jobs[j].state = state}
ActiveJobs == JobsIn("active")

\* Queue.add with a jobId: a job is created (delayed by the default delay of
\* 60000 / ORDERS_PER_MINUTE ms) unless a job with that id is in the queue.
addOrderJob(orderId, amount, maxSlippage) ==
    LET id == AddJobId(orderId) IN
    /\ jobs' = IF id \in DOMAIN jobs THEN jobs
               ELSE Put(jobs, id,
                        [state |-> "delayed", orderId |-> orderId,
                         amount |-> amount, maxSlippage |-> maxSlippage,
                         attemptsMade |-> 0, failedReason |-> NoError])
    /\ addCalls' = Put(addCalls, orderId,
                       IF orderId \notin DOMAIN addCalls THEN 1
                       ELSE IF addCalls[orderId] < MaxAddCalls
                            THEN addCalls[orderId] + 1 ELSE addCalls[orderId])

(***************************************************************************)
(* WebSocketService.                                                       *)
(***************************************************************************)
\* sendMessage: delivered when the connection is in the map and open.
Deliver(conns, c, status) ==
    IF c \in DOMAIN conns /\ conns[c].state = "open"
    THEN [conns EXCEPT ![c].received = Append(@, status)]
    ELSE conns

RECURSIVE DeliverAll(_, _, _)
DeliverAll(conns, ids, status) ==
    IF ids = {} THEN conns
    ELSE LET c == CHOOSE x \in ids : TRUE
         IN DeliverAll(Deliver(conns, c, status), ids \ {c}, status)

\* getWebSocketConnections: SMEMBERS of a key that may not exist.
getWebSocketConnections(orderId) ==
    IF orderId \in DOMAIN wsConnections THEN wsConnections[orderId] ELSE {}

\* broadcastOrderUpdate: one message to every registered connection id.
broadcastOrderUpdate_Everyone(conns, orderId, status) ==
    DeliverAll(conns, DOMAIN conns, status)
broadcastOrderUpdate(conns, orderId, status) ==
    DeliverAll(conns, getWebSocketConnections(orderId), status)

\* getOrderProgress: the status of the cached snapshot, "none" on a miss.
getOrderProgress(o) ==
    IF o \in DOMAIN orderProgress THEN orderProgress[o].status ELSE "none"

\* const currentProgress = await getOrderProgress(orderId);
\* if (currentProgress) await this.sendMessage(connectionId, ...)
SnapshotMessages_None(o) == <<>>
SnapshotMessages(o) ==
    IF getOrderProgress(o) # "none" THEN <<getOrderProgress(o)>> ELSE <<>>

\* handleConnection: the socket is stored, registered in Redis, and sent the
\* current order progress when the cache holds one.
HandleConnection(c, o) ==
    /\ c \notin DOMAIN connections
    /\ o \in DOMAIN db                  \* the route closes the socket otherwise
    /\ wsConnections' = Put(wsConnections, o, getWebSocketConnections(o) \cup {c})
    /\ connections' = Put(connections, c,
          [state |-> "open", orderId |-> o,
           received |-> SnapshotMessages(o)])
    /\ UNCHANGED <<queueVars, cacheVars, db, histVars, router, query, submit,
                   abandoned>>

\* socket 'close': the connection leaves the map and the Redis set.  The
\* record stays in `connections` with state "closed" (or "errored" after the
\* 'error' handler deleted it): the map of the code is the open records.
SocketClose(c) ==
    /\ c \in DOMAIN connections
    /\ connections[c].state # "closed"
    /\ connections' = [connections EXCEPT ![c].state = "closed"]
    /\ LET o == connections[c].orderId
           left == getWebSocketConnections(o) \ {c}
       IN wsConnections' = IF left = {} THEN Del(wsConnections, o)
                           ELSE Put(wsConnections, o, left)
    /\ UNCHANGED <<queueVars, cacheVars, db, histVars, router, query, submit,
                   abandoned>>

(***************************************************************************)
(* POST /api/orders/execute (src/src/api/server.ts).                       *)
(***************************************************************************)
DbDefaultMaxSlippage == 500      \* orderRequest.maxSlippage || 0.05

\* uuidv4() is a fresh id: the least order id not used yet.
FreshOrderId(o) ==
    /\ o \notin DOMAIN db
    /\ \A p \in Orders : p < o => p \in DOMAIN db

\* The handler up to and with `await queueService.addOrderJob(...)`: the
\* record, the two cache entries with the PENDING snapshot, the job.
SubmitOrder(o, amount, maxSlippage) ==
    /\ FreshOrderId(o)
    /\ amount > 0
    /\ db' = Put(db, o,
          [NewRecord EXCEPT
              !.max_slippage = IF maxSlippage = Undefined \/ maxSlippage = 0
                               THEN DbDefaultMaxSlippage ELSE maxSlippage])
    /\ orderProgress' = Put(orderProgress, o,
          Progress(PENDING, "none", 0, FALSE, FALSE, NoError))
    /\ activeOrders' = activeOrders \cup {o}
    /\ addOrderJob(o, amount, maxSlippage)
    /\ attemptsStarted' = Put(attemptsStarted, o, 0)
    /\ cacheLog' = Put(cacheLog, o, <<PENDING>>)
    /\ dbLog' = Put(dbLog, o, <<PENDING>>)
    /\ UNCHANGED <<waiting, proc, hpf, wsConnections, router, query>>

\* The whole handler in one step: the broadcast of the PENDING snapshot
\* follows addOrderJob at once.
ExecuteOrder(o, amount, maxSlippage) ==
    /\ SubmitOrder(o, amount, maxSlippage)
    /\ connections' = broadcastOrderUpdate(connections, o, PENDING)
    /\ UNCHANGED <<submit, abandoned>>

\* The handler await by await, as far as others can see it: the step that
\* ends when addOrderJob has resolved ...
ExecuteOrderEnqueue(o, amount, maxSlippage) ==
    /\ SubmitOrder(o, amount, maxSlippage)
    /\ submit' = Put(submit, o, "broadcast")
    /\ UNCHANGED <<connections, abandoned>>

\* ... and `await wsService.broadcastOrderUpdate(orderId, initialProgress)`,
\* which reads the registry when it runs.
ExecuteOrderBroadcast(o) ==
    /\ o \in DOMAIN submit
    /\ submit[o] = "broadcast"
    /\ connections' = broadcastOrderUpdate(connections, o, PENDING)
    /\ submit' = [submit EXCEPT ![o] = "respond"]
    /\ UNCHANGED <<queueVars, cacheVars, wsConnections, db, histVars, router,
                   query, abandoned>>

\* A further addOrderJob call for an order id that was submitted before.
AddOrderJobAgain(o) ==
    /\ o \in DOMAIN db
    /\ addCalls[o] < MaxAddCalls
    /\ addOrderJob(o, jobs[o].amount, jobs[o].maxSlippage)
    /\ UNCHANGED <<waiting, proc, hpf, cacheVars, wsVars, db, cacheLog, dbLog,
                   attemptsStarted, router, query, submit, abandoned>>

(***************************************************************************)
(* The queue: delayed jobs become waiting; the worker takes the first      *)
(* waiting job while fewer than `concurrency` jobs are active.             *)
(***************************************************************************)
PromoteDelayed(j) ==
    /\ j \in JobsIn("delayed")
    /\ jobs' = [jobs EXCEPT ![j].state = "waiting"]
    /\ waiting' = Append(waiting, j)
    /\ UNCHANGED <<proc, hpf, cacheVars, wsVars, db, histVars, router, query,
                   submit, abandoned>>

WorkerStart(j) ==
    /\ waiting # <<>>
    /\ j = Head(waiting)
    /\ Cardinality(ActiveJobs) < WorkerConcurrency
    /\ waiting' = Tail(waiting)
    /\ jobs' = [jobs EXCEPT ![j].state = "active"]
    /\ proc' = Put(proc, j, NewProc)
    /\ attemptsStarted' = [attemptsStarted EXCEPT ![jobs[j].orderId] = @ + 1]
    /\ cacheLog' = [cacheLog EXCEPT ![jobs[j].orderId] =
                       IF jobs[j].attemptsMade = 0 THEN @ ELSE <<>>]
    /\ dbLog' = [dbLog EXCEPT ![jobs[j].orderId] =
                    IF jobs[j].attemptsMade = 0 THEN @ ELSE <<>>]
    /\ UNCHANGED <<hpf, cacheVars, wsVars, db, addCalls, router, query,
                   submit, abandoned>>

(***************************************************************************)
(* QueueService.processOrder, one action per await.  proc[j].pc names the  *)
(* statement the job executes next.                                        *)
(***************************************************************************)
OrderOf(j) == jobs[j].orderId
\* const attemptNumber = job.attemptsMade || 0
AttemptNumber(j) == jobs[j].attemptsMade
\* attemptNumber + 1 >= this.MAX_RETRY_ATTEMPTS
FinalAttempt_Always(j) == TRUE
FinalAttempt(j) == AttemptNumber(j) + 1 >= MAX_RETRY_ATTEMPTS

CachePcs == {"routingCache", "buildingCache", "submittedCache",
             "confirmedCache", "failedCache"}
DbPcs == {"routingDb", "buildingDb", "submittedDb", "confirmedDb", "failedDb"}

StatusAt(pc) ==
    CASE pc \in {"routingCache", "routingDb"} -> ROUTING
      [] pc \in {"buildingCache", "buildingDb"} -> BUILDING
      [] pc \in {"submittedCache", "submittedDb"} -> SUBMITTED
      [] pc \in {"confirmedCache", "confirmedDb"} -> CONFIRMED
      [] pc \in {"failedCache", "failedDb"} -> FAILED

\* The statement after the quote has been obtained.
StageAfterQuote_Skip == "submittedCache"
StageAfterQuote == "buildingCache"

\* The statement after executeBestSwapWithQuote has resolved.
StageAfterSwap == "confirmedCache"

\* The statement after a cache write is the table write of the same status.
AfterCache_SkipFailedDb(pc) ==
    CASE pc = "routingCache" -> "routingDb"
      [] pc = "buildingCache" -> "buildingDb"
      [] pc = "submittedCache" -> "submittedDb"
      [] pc = "confirmedCache" -> "confirmedDb"
      [] pc = "failedCache" -> "throw"
AfterCache(pc) ==
    CASE pc = "routingCache" -> "routingDb"
      [] pc = "buildingCache" -> "buildingDb"
      [] pc = "submittedCache" -> "submittedDb"
      [] pc = "confirmedCache" -> "confirmedDb"
      [] pc = "failedCache" -> "failedDb"

AfterDb(j, pc) ==
    CASE pc = "routingDb" -> "quote"
      [] pc = "buildingDb" -> "submittedCache"
      [] pc = "submittedDb" -> "execute"
      [] pc = "confirmedDb" -> "removeActive"
      [] pc = "failedDb" -> IF FinalAttempt(j) THEN "removeActive" ELSE "throw"

\* The OrderProgress object each updateOrderProgress call of processOrder builds.
ProgressAt(j, pc) ==
    CASE pc = "routingCache" -> Progress(ROUTING, "none", 0, FALSE, FALSE, NoError)
      [] pc = "buildingCache" ->
            Progress(BUILDING, proc[j].bestQuote.dex, 0, FALSE, FALSE, NoError)
      [] pc = "submittedCache" -> Progress(SUBMITTED, "none", 0, FALSE, FALSE, NoError)
      [] pc = "confirmedCache" ->
            Progress(CONFIRMED, proc[j].bestQuote.dex, AttemptNumber(j) + 1,
                     FALSE, FALSE, NoError)
      [] pc = "failedCache" ->
            Progress(FAILED, "none", AttemptNumber(j) + 1,
                     AttemptNumber(j) + 1 < MAX_RETRY_ATTEMPTS, FALSE,
                     proc[j].error)

\* The UPDATE each databaseService.updateOrderStatus call of processOrder makes.
RecordAt_KeepError(j, pc, r) ==
    CASE pc \in {"routingDb", "submittedDb"} -> [r EXCEPT !.status = StatusAt(pc)]
      [] pc = "buildingDb" ->
            [r EXCEPT !.status = BUILDING,
                      !.quote_dex = proc[j].bestQuote.dex,
                      !.quote_price = proc[j].bestQuote.quote.price]
      [] pc = "confirmedDb" ->
            [r EXCEPT !.status = CONFIRMED, !.tx_hash = TRUE,
                      !.executed_price = proc[j].executedPrice,
                      !.slippage = AbsSlippage(proc[j].bestQuote.quote.price,
                                               proc[j].executedPrice),
                      !.attempts = AttemptNumber(j) + 1]
      [] pc = "failedDb" ->
            [r EXCEPT !.status = FAILED, !.error_message = proc[j].error,
                      !.attempts = AttemptNumber(j) + 1]
RecordAt(j, pc, r) ==
    CASE pc \in {"routingDb", "submittedDb"} -> [r EXCEPT !.status = StatusAt(pc)]
      [] pc = "buildingDb" ->
            [r EXCEPT !.status = BUILDING,
                      !.quote_dex = proc[j].bestQuote.dex,
                      !.quote_price = proc[j].bestQuote.quote.price]
      [] pc = "confirmedDb" ->
            [r EXCEPT !.status = CONFIRMED, !.tx_hash = TRUE,
                      !.executed_price = proc[j].executedPrice,
                      !.slippage = AbsSlippage(proc[j].bestQuote.quote.price,
                                               proc[j].executedPrice),
                      !.attempts = AttemptNumber(j) + 1,
                      !.error_message = NoError]
      [] pc = "failedDb" ->
            [r EXCEPT !.status = FAILED, !.error_message = proc[j].error,
                      !.attempts = AttemptNumber(j) + 1]

\* updateOrderProgress: redisService.setOrderProgress, and nothing else (the
\* QueueService holds no reference to the WebSocketService).
updateOrderProgress_AllKeys(o, progress) ==
    /\ orderProgress' = [k \in DOMAIN orderProgress \cup {o} |-> progress]
    /\ UNCHANGED connections
updateOrderProgress(o, progress) ==
    /\ orderProgress' = Put(orderProgress, o, progress)
    /\ UNCHANGED connections

UpdateOrderProgressStep(j) ==
    /\ j \in DOMAIN proc
    /\ proc[j].pc \in CachePcs
    /\ updateOrderProgress(OrderOf(j), ProgressAt(j, proc[j].pc))
    /\ cacheLog' = [cacheLog EXCEPT ![OrderOf(j)] = Append(@, StatusAt(proc[j].pc))]
    /\ proc' = [proc EXCEPT ![j].pc = AfterCache(proc[j].pc)]
    /\ UNCHANGED <<jobs, waiting, hpf, activeOrders, wsConnections, db, dbLog,
                   attemptsStarted, addCalls, router, query, submit,
                   abandoned>>

UpdateOrderStatusStep(j) ==
    /\ j \in DOMAIN proc
    /\ proc[j].pc \in DbPcs
    /\ db' = [db EXCEPT ![OrderOf(j)] = RecordAt(j, proc[j].pc, @)]
    /\ dbLog' = [dbLog EXCEPT ![OrderOf(j)] = Append(@, StatusAt(proc[j].pc))]
    /\ proc' = [proc EXCEPT ![j].pc = AfterDb(j, proc[j].pc)]
    /\ UNCHANGED <<jobs, waiting, hpf, cacheVars, wsVars, cacheLog,
                   attemptsStarted, addCalls, router, query, submit,
                   abandoned>>

\* await withTimeout(getBestQuote(...), 10000, ...) resolves with the better
\* of the two venues' quotes.
GetBestQuoteResolves(j, raydiumPrice, meteorPrice) ==
    /\ j \in DOMAIN proc
    /\ proc[j].pc = "quote"
    /\ proc' = [proc EXCEPT ![j].pc = StageAfterQuote,
                            ![j].bestQuote =
                                getBestQuote(jobs[j].amount,
                                             Quote(raydiumPrice, RaydiumFee),
                                             Quote(meteorPrice, MeteorFee))]
    /\ UNCHANGED <<jobs, waiting, hpf, cacheVars, wsVars, db, histVars,
                   router, query, submit, abandoned>>

\* The ways the awaited race can reject: withTimeout's timer fires first
\* ('Quote request timed out'), or the venue call itself throws.
QuoteRejections_NoTimeout == {"adapter"}
QuoteRejections == {"quoteTimeout", "adapter"}

\* ... or rejects: the timeout wins the race, or a venue call fails.
GetBestQuoteRejects(j, kind) ==
    /\ j \in DOMAIN proc
    /\ proc[j].pc = "quote"
    /\ kind \in QuoteRejections
    /\ proc' = [proc EXCEPT ![j].pc = "failedCache", ![j].error = ErrorOf(kind)]
    /\ UNCHANGED <<jobs, waiting, hpf, cacheVars, wsVars, db, histVars,
                   router, query, submit, abandoned>>

\* await withTimeout(executeBestSwapWithQuote(..., orderRequest.maxSlippage),
\* 30000, ...): the swap executes at executedPrice and the slippage decision
\* either throws or lets the result through.
ExecuteSwapResolves(j, executedPrice) ==
    /\ j \in DOMAIN proc
    /\ proc[j].pc = "execute"
    /\ LET quotePrice == proc[j].bestQuote.quote.price IN
       IF SlippageRejected(quotePrice, executedPrice, jobs[j].maxSlippage)
       THEN proc' = [proc EXCEPT
                ![j].pc = "failedCache",
                ![j].executedPrice = executedPrice,
                ![j].error = SlippageError(quotePrice, executedPrice,
                                           jobs[j].maxSlippage)]
       ELSE proc' = [proc EXCEPT ![j].pc = StageAfterSwap,
                                 ![j].executedPrice = executedPrice]
    /\ UNCHANGED <<jobs, waiting, hpf, cacheVars, wsVars, db, histVars,
                   router, query, submit, abandoned>>

\* 'Swap execution timed out', or the venue call throws.
SwapRejections_NoTimeout == {"adapter"}
SwapRejections == {"swapTimeout", "adapter"}

ExecuteSwapRejects(j, kind) ==
    /\ j \in DOMAIN proc
    /\ proc[j].pc = "execute"
    /\ kind \in SwapRejections
    /\ proc' = [proc EXCEPT ![j].pc = "failedCache", ![j].error = ErrorOf(kind)]
    /\ UNCHANGED <<jobs, waiting, hpf, cacheVars, wsVars, db, histVars,
                   router, query, submit, abandoned>>

\* await this.redisService.removeActiveOrder(orderId)
RemoveActiveOrderStep(j) ==
    /\ j \in DOMAIN proc
    /\ proc[j].pc = "removeActive"
    /\ activeOrders' = activeOrders \ {OrderOf(j)}
    /\ proc' = [proc EXCEPT ![j].pc = "removeProgress"]
    /\ UNCHANGED <<jobs, waiting, hpf, orderProgress, wsVars, db, histVars,
                   router, query, submit, abandoned>>

\* await this.redisService.removeOrderProgress(orderId); then the success path
\* returns and the catch block rethrows.
RemoveOrderProgressStep(j) ==
    /\ j \in DOMAIN proc
    /\ proc[j].pc = "removeProgress"
    /\ orderProgress' = Del(orderProgress, OrderOf(j))
    /\ proc' = [proc EXCEPT ![j].pc =
                   IF proc[j].error = NoError THEN "return" ELSE "throw"]
    /\ UNCHANGED <<jobs, waiting, hpf, activeOrders, wsVars, db, histVars,
                   router, query, submit, abandoned>>

\* processOrder returned: the worker moves the job to completed.
CompleteJob(j) ==
    /\ j \in DOMAIN proc
    /\ proc[j].pc = "return"
    /\ jobs' = [jobs EXCEPT ![j].state = "completed"]
    /\ proc' = Del(proc, j)
    /\ UNCHANGED <<waiting, hpf, cacheVars, wsVars, db, histVars, router,
                   query, submit, abandoned>>

\* processOrder threw: the worker counts the attempt and either delays the job
\* for a retry (exponential backoff) or moves it to failed; then the 'failed'
\* listener runs and starts handlePermanentFailure when
\* job.attemptsMade >= MAX_RETRY_ATTEMPTS.
FailJob(j) ==
    /\ j \in DOMAIN proc
    /\ proc[j].pc = "throw"
    /\ LET made == jobs[j].attemptsMade + 1 IN
       /\ jobs' = [jobs EXCEPT
              ![j].attemptsMade = made,
              ![j].failedReason = proc[j].error,
              ![j].state = IF made < JobAttempts THEN "delayed" ELSE "failed"]
       /\ hpf' = IF made >= MAX_RETRY_ATTEMPTS
                 THEN Put(hpf, j, "progress") ELSE hpf
    /\ proc' = Del(proc, j)
    /\ UNCHANGED <<waiting, cacheVars, wsVars, db, histVars, router, query,
                   submit, abandoned>>

(***************************************************************************)
(* QueueService.handlePermanentFailure, started by the 'failed' listener   *)
(* and not awaited by it; one action per await.                            *)
(***************************************************************************)
\* `Permanent failure after ${MAX_RETRY_ATTEMPTS} attempts: ${error.message}`
PermanentError(error) == [error EXCEPT !.permanent = TRUE]

HandlerUpdateProgress(j) ==
    /\ j \in DOMAIN hpf
    /\ hpf[j] = "progress"
    /\ updateOrderProgress(OrderOf(j),
          Progress(FAILED, "none", MAX_RETRY_ATTEMPTS, FALSE, TRUE,
                   PermanentError(jobs[j].failedReason)))
    /\ hpf' = [hpf EXCEPT ![j] = "db"]
    /\ UNCHANGED <<jobs, waiting, proc, activeOrders, wsConnections, db,
                   histVars, router, query, submit, abandoned>>

HandlerUpdateStatus(j) ==
    /\ j \in DOMAIN hpf
    /\ hpf[j] = "db"
    /\ db' = [db EXCEPT ![OrderOf(j)] =
          [@ EXCEPT !.status = FAILED,
                    !.error_message = PermanentError(jobs[j].failedReason),
                    !.attempts = MAX_RETRY_ATTEMPTS,
                    !.failure_reason = jobs[j].failedReason]]
    /\ hpf' = [hpf EXCEPT ![j] = "removeActive"]
    /\ UNCHANGED <<jobs, waiting, proc, cacheVars, wsVars, histVars, router,
                   query, submit, abandoned>>

HandlerRemoveActiveOrder(j) ==
    /\ j \in DOMAIN hpf
    /\ hpf[j] = "removeActive"
    /\ activeOrders' = activeOrders \ {OrderOf(j)}
    /\ hpf' = [hpf EXCEPT ![j] = "removeProgress"]
    /\ UNCHANGED <<jobs, waiting, proc, orderProgress, wsVars, db, histVars,
                   router, query, submit, abandoned>>

HandlerRemoveOrderProgress(j) ==
    /\ j \in DOMAIN hpf
    /\ hpf[j] = "removeProgress"
    /\ orderProgress' = Del(orderProgress, OrderOf(j))
    /\ hpf' = [hpf EXCEPT ![j] = "done"]
    /\ UNCHANGED <<jobs, waiting, proc, activeOrders, wsVars, db, histVars,
                   router, query, submit, abandoned>>

(***************************************************************************)
(* MockDexRouter.executeBestSwap called on its own: getBestQuote, then     *)
(* executeBestSwapWithQuote with the quote it returned.                    *)
(***************************************************************************)
RouterGetBestQuote(amount, raydiumQuote, meteorQuote) ==
    /\ router.op = "none"
    /\ amount > 0
    /\ router' = [NoRouterCall EXCEPT
          !.op = "getBestQuote", !.amount = amount,
          !.raydiumQuote = raydiumQuote, !.meteorQuote = meteorQuote,
          !.best = getBestQuote(amount, raydiumQuote, meteorQuote)]
    /\ UNCHANGED <<queueVars, cacheVars, wsVars, db, histVars, query, submit,
                   abandoned>>

RouterExecuteSwap(executedPrice, maxSlippage) ==
    /\ router.op = "getBestQuote"
    /\ LET quotePrice == router.best.quote.price
           rejected == SlippageRejected(quotePrice, executedPrice, maxSlippage)
       IN router' = [router EXCEPT
             !.op = "executeBestSwapWithQuote",
             !.executedPrice = executedPrice, !.maxSlippage = maxSlippage,
             !.outcome = IF rejected THEN "rejected" ELSE "resolved",
             !.error = IF rejected
                       THEN SlippageError(quotePrice, executedPrice, maxSlippage)
                       ELSE NoError]
    /\ UNCHANGED <<queueVars, cacheVars, wsVars, db, histVars, query, submit,
                   abandoned>>

(***************************************************************************)
(* Specifications.                                                         *)
(***************************************************************************)
Pipeline(j) ==
    \/ UpdateOrderProgressStep(j)
    \/ UpdateOrderStatusStep(j)
    \/ \E rp \in RaydiumPrices, mp \in MeteorPrices : GetBestQuoteResolves(j, rp, mp)
    \/ \E kind \in {"quoteTimeout", "adapter"} : GetBestQuoteRejects(j, kind)
    \/ \E ep \in ExecPrices : ExecuteSwapResolves(j, ep)
    \/ \E kind \in {"swapTimeout", "adapter"} : ExecuteSwapRejects(j, kind)
    \/ RemoveActiveOrderStep(j)
    \/ RemoveOrderProgressStep(j)
    \/ CompleteJob(j)
    \/ FailJob(j)

Handler(j) ==
    \/ HandlerUpdateProgress(j)
    \/ HandlerUpdateStatus(j)
    \/ HandlerRemoveActiveOrder(j)
    \/ HandlerRemoveOrderProgress(j)

\* Spec follows one order through every interleaving of its awaits, with
\* repeated addOrderJob calls and websocket listeners.
SpecOrders == {1}

Next ==
    \/ \E o \in SpecOrders, a \in RequestAmounts, ms \in RequestSlippages :
          ExecuteOrder(o, a, ms)
    \/ \E o \in SpecOrders : AddOrderJobAgain(o)
    \/ \E j \in JobIds : PromoteDelayed(j)
    \/ \E j \in JobIds : WorkerStart(j)
    \/ \E j \in JobIds : Pipeline(j)
    \/ \E j \in JobIds : Handler(j)
    \/ \E c \in Conns, o \in SpecOrders : HandleConnection(c, o)
    \/ \E c \in Conns : SocketClose(c)

Spec == Init /\ [][Next]_vars

NextRouter ==
    \/ \E a \in RouterAmounts, rp \in RouterPrices, rf \in RouterFees,
          mp \in RouterPrices, mf \in RouterFees :
          RouterGetBestQuote(a, Quote(rp, rf), Quote(mp, mf))
    \/ \E ep \in RouterExecPrices, ms \in RouterSlippages :
          RouterExecuteSwap(ep, ms)

SpecRouter == Init /\ [][NextRouter]_vars

(***************************************************************************)
(* SpecBurst: NumOrders orders submitted in a burst, more than the worker's*)
(* concurrency.  The orders carry the same request, so their jobs have the *)
(* same delay and become waiting in the order they were added; the venue   *)
(* answers every call, and the awaits of the job that was picked up first  *)
(* resolve first.                                                          *)
(***************************************************************************)
LeastIn(j, state) ==
    /\ j \in JobsIn(state)
    /\ \A k \in JobsIn(state) : j <= k

BurstPipeline(j) ==
    \/ UpdateOrderProgressStep(j)
    \/ UpdateOrderStatusStep(j)
    \/ \E rp \in RaydiumPrices, mp \in {100} : GetBestQuoteResolves(j, rp, mp)
    \/ \E ep \in {95} : ExecuteSwapResolves(j, ep)
    \/ RemoveActiveOrderStep(j)
    \/ RemoveOrderProgressStep(j)
    \/ CompleteJob(j)

NextBurst ==
    \/ \E o \in Orders, a \in RequestAmounts : ExecuteOrder(o, a, Undefined)
    \/ \E j \in JobIds : LeastIn(j, "delayed") /\ PromoteDelayed(j)
    \/ \E j \in JobIds : WorkerStart(j)
    \/ \E j \in JobIds : LeastIn(j, "active") /\ BurstPipeline(j)

SpecBurst == Init /\ [][NextBurst]_vars

(***************************************************************************)
(* GET /api/orders/:orderId (src/src/api/server.ts) and the expiry of the  *)
(* cache keys, which are written with a TTL of 3600 seconds.               *)
(***************************************************************************)
\* The active-order entry is written once, at submission, with the PENDING
\* progress; the handler answers with activeOrder.progress when it is there.
CacheResponse(o) ==
    [orderId |-> o, source |-> "cache", code |-> 200, status |-> PENDING,
     error |-> NoError]

\* Fall back to database: 404 when there is no record, else the record's
\* status and error_message.
StoreResponse_NotFound(o) ==
    [orderId |-> o, source |-> "store", code |-> 404, status |-> "none",
     error |-> NoError]
StoreResponse(o) ==
    IF o \notin DOMAIN db
    THEN [orderId |-> o, source |-> "store", code |-> 404, status |-> "none",
          error |-> NoError]
    ELSE [orderId |-> o, source |-> "store", code |-> 200,
          status |-> db[o].status, error |-> db[o].error_message]

GetOrder(o) ==
    /\ query' = IF o \in activeOrders THEN CacheResponse(o) ELSE StoreResponse(o)
    /\ UNCHANGED <<queueVars, cacheVars, wsVars, db, histVars, router, submit,
                   abandoned>>

\* active_orders:<orderId> expires (setex 3600) or is lost.
ActiveOrderExpires(o) ==
    /\ o \in activeOrders
    /\ activeOrders' = activeOrders \ {o}
    /\ UNCHANGED <<queueVars, orderProgress, wsVars, db, histVars, router,
                   query, submit, abandoned>>

\* order_progress:<orderId> expires (setex 3600) or is lost.
OrderProgressExpires(o) ==
    /\ o \in DOMAIN orderProgress
    /\ orderProgress' = Del(orderProgress, o)
    /\ UNCHANGED <<queueVars, activeOrders, wsVars, db, histVars, router,
                   query, submit, abandoned>>

\* SpecQuery follows one order through its attempts while its cache entries
\* may expire at any moment and status queries arrive for it and for an
\* order id that was never submitted.
QueryOrders == SpecOrders \cup {NumOrders}

NextQuery ==
    \/ \E o \in SpecOrders, a \in RequestAmounts : ExecuteOrder(o, a, Undefined)
    \/ \E j \in JobIds : PromoteDelayed(j)
    \/ \E j \in JobIds : WorkerStart(j)
    \/ \E j \in JobIds : Pipeline(j)
    \/ \E j \in JobIds : Handler(j)
    \/ \E o \in SpecOrders : ActiveOrderExpires(o)
    \/ \E o \in SpecOrders : OrderProgressExpires(o)
    \/ \E o \in QueryOrders : GetOrder(o)

SpecQuery == Init /\ [][NextQuery]_vars

(***************************************************************************)
(* SpecLive: the burst of SpecBurst under fair scheduling.  The venue      *)
(* answers the calls of every order but the last one submitted, the one    *)
(* that exceeds the worker's concurrency; for that order it may answer,    *)
(* fail, reject by slippage, or never answer at all.  Fairness: the queue  *)
(* promotes a delayed job, the worker starts the first waiting job when it *)
(* has a free slot, every await on Redis and Postgres returns, and the     *)
(* timer of withTimeout fires when the venue has not answered; nothing is  *)
(* assumed of the venue for the last order.                                *)
(***************************************************************************)
FaultyJobs == {NumOrders}

\* The steps of processOrder that do not wait for the venue.
ProgramStep(j) ==
    \/ UpdateOrderProgressStep(j)
    \/ UpdateOrderStatusStep(j)
    \/ RemoveActiveOrderStep(j)
    \/ RemoveOrderProgressStep(j)
    \/ CompleteJob(j)
    \/ FailJob(j)

\* The venue answers the quote call or the swap call.
VenueAnswers(j) ==
    \/ \E rp \in RaydiumPrices, mp \in {100} : GetBestQuoteResolves(j, rp, mp)
    \/ \E ep \in (IF j \in FaultyJobs THEN ExecPrices ELSE {95}) :
          ExecuteSwapResolves(j, ep)

\* The venue call throws.
VenueFails(j) ==
    \/ GetBestQuoteRejects(j, "adapter")
    \/ ExecuteSwapRejects(j, "adapter")

\* setTimeout(() => reject(new Error(timeoutMessage)), timeoutMs)
TimeoutFires(j) ==
    \/ GetBestQuoteRejects(j, "quoteTimeout")
    \/ ExecuteSwapRejects(j, "swapTimeout")

\* What ends the wait of job j on the venue for certain: the answer of a
\* venue that answers, the timer otherwise.
WaitEnds(j) ==
    IF j \in FaultyJobs THEN TimeoutFires(j) ELSE VenueAnswers(j)

LivePromote(j) == LeastIn(j, "delayed") /\ PromoteDelayed(j)
LiveProgram(j) == LeastIn(j, "active") /\ ProgramStep(j)
LiveVenue(j) ==
    /\ LeastIn(j, "active")
    /\ \/ VenueAnswers(j)
       \/ j \in FaultyJobs /\ (VenueFails(j) \/ TimeoutFires(j))
LiveWaitEnds(j) == LeastIn(j, "active") /\ WaitEnds(j)

NextLive ==
    \/ \E o \in Orders, a \in RequestAmounts : ExecuteOrder(o, a, Undefined)
    \/ \E j \in JobIds : LivePromote(j)
    \/ \E j \in JobIds : WorkerStart(j)
    \/ \E j \in JobIds : LiveProgram(j)
    \/ \E j \in JobIds : LiveVenue(j)

Fairness ==
    \A j \in JobIds :
        /\ WF_vars(LivePromote(j))
        /\ WF_vars(WorkerStart(j))
        /\ WF_vars(LiveProgram(j))
        /\ WF_vars(LiveWaitEnds(j))

SpecLive == Init /\ [][NextLive]_vars /\ Fairness

(***************************************************************************)
(* SpecBroadcast: listeners of two orders connect, close and fail while    *)
(* broadcastOrderUpdate is called for either order.  The execute handler   *)
(* is the only caller of broadcastOrderUpdate in the repository, and it    *)
(* calls it before a listener of the order can exist, so this              *)
(* specification calls the operation directly.                             *)
(***************************************************************************)
MaxListeners == 3
MaxReceived == 2

Listeners == 1..MaxListeners
BroadcastOrders == {1, 2}
BroadcastStatuses == {ROUTING}

\* uuidv4() is a fresh connection id: the least id not used yet.
FreshConnectionId(c) ==
    /\ c \notin DOMAIN connections
    /\ \A d \in Listeners : d < c => d \in DOMAIN connections

\* socket 'error': the connection leaves the map; the Redis set is not
\* touched.  A 'close' event may follow (SocketClose).
SocketError(c) ==
    /\ c \in DOMAIN connections
    /\ connections[c].state = "open"
    /\ connections' = [connections EXCEPT ![c].state = "errored"]
    /\ UNCHANGED <<queueVars, cacheVars, wsConnections, db, histVars, router,
                   query, submit, abandoned>>

\* A call of broadcastOrderUpdate(orderId, progress): sendMessage to every id
\* of the Redis set; an id that is not in the map is deleted from the map, a
\* no-op, and stays in the Redis set.
BroadcastOrderUpdate(o, status) ==
    /\ o \in DOMAIN db
    /\ \A c \in getWebSocketConnections(o) :
          Len(connections[c].received) < MaxReceived
    /\ connections' = broadcastOrderUpdate(connections, o, status)
    /\ UNCHANGED <<queueVars, cacheVars, wsConnections, db, histVars, router,
                   query, submit, abandoned>>

NextBroadcast ==
    \/ \E o \in BroadcastOrders, a \in RequestAmounts :
          ExecuteOrder(o, a, Undefined)
    \/ \E c \in Listeners, o \in BroadcastOrders :
          FreshConnectionId(c) /\ HandleConnection(c, o)
    \/ \E c \in Listeners : SocketClose(c)
    \/ \E c \in Listeners : SocketError(c)
    \/ \E o \in BroadcastOrders, s \in BroadcastStatuses :
          BroadcastOrderUpdate(o, s)

SpecBroadcast == Init /\ [][NextBroadcast]_vars

(***************************************************************************)
(* SpecCacheFault: one order through its attempts while Redis commands of  *)
(* processOrder may fail.  No call of redisService in processOrder is      *)
(* wrapped in a try of its own: a rejected command inside the try block    *)
(* enters the catch block, and one inside the catch block leaves           *)
(* processOrder with the Redis error.                                      *)
(***************************************************************************)
\* await this.updateOrderProgress(...) rejects: setex failed.
UpdateOrderProgressFails(j) ==
    /\ j \in DOMAIN proc
    /\ proc[j].pc \in CachePcs
    /\ proc' = [proc EXCEPT
          ![j].pc = IF proc[j].pc = "failedCache" THEN "throw" ELSE "failedCache",
          ![j].error = ErrorOf("cache")]
    /\ UNCHANGED <<jobs, waiting, hpf, cacheVars, wsVars, db, histVars,
                   router, query, submit, abandoned>>

\* await this.redisService.removeActiveOrder / removeOrderProgress rejects:
\* del failed.  After the CONFIRMED writes the call is inside the try block,
\* after the FAILED writes of the last attempt it is inside the catch block.
RemoveFails(j) ==
    /\ j \in DOMAIN proc
    /\ proc[j].pc \in {"removeActive", "removeProgress"}
    /\ proc' = [proc EXCEPT
          ![j].pc = IF proc[j].error = NoError THEN "failedCache" ELSE "throw",
          ![j].error = ErrorOf("cache")]
    /\ UNCHANGED <<jobs, waiting, hpf, cacheVars, wsVars, db, histVars,
                   router, query, submit, abandoned>>

NextCacheFault ==
    \/ \E o \in SpecOrders, a \in RequestAmounts : ExecuteOrder(o, a, Undefined)
    \/ \E j \in JobIds : PromoteDelayed(j)
    \/ \E j \in JobIds : WorkerStart(j)
    \/ \E j \in JobIds : Pipeline(j)
    \/ \E j \in JobIds : Handler(j)
    \/ \E j \in JobIds : UpdateOrderProgressFails(j)
    \/ \E j \in JobIds : RemoveFails(j)

SpecCacheFault == Init /\ [][NextCacheFault]_vars

(***************************************************************************)
(* SpecSubmit: one order whose execute handler runs await by await, so     *)
(* that the worker and a listener (the order id is visible through         *)
(* GET /api/orders once the record exists) can act between addOrderJob and *)
(* the broadcast of the PENDING snapshot.                                  *)
(***************************************************************************)
NextSubmit ==
    \/ \E o \in SpecOrders, a \in RequestAmounts :
          ExecuteOrderEnqueue(o, a, Undefined)
    \/ \E o \in SpecOrders : ExecuteOrderBroadcast(o)
    \/ \E j \in JobIds : PromoteDelayed(j)
    \/ \E j \in JobIds : WorkerStart(j)
    \/ \E j \in JobIds : Pipeline(j)
    \/ \E j \in JobIds : Handler(j)
    \/ \E c \in Conns, o \in SpecOrders : HandleConnection(c, o)
    \/ \E c \in Conns : SocketClose(c)

SpecSubmit == Init /\ [][NextSubmit]_vars

(***************************************************************************)
(* SpecPair: two orders in the worker at the same time, in every           *)
(* interleaving of their awaits; a quote call may fail, so attempts fail,  *)
(* are retried and end in handlePermanentFailure or in CONFIRMED; a        *)
(* listener subscribes to either order.                                    *)
(***************************************************************************)
PairOrders == {1, 2}

PairPipeline(j) ==
    \/ UpdateOrderProgressStep(j)
    \/ UpdateOrderStatusStep(j)
    \/ GetBestQuoteResolves(j, 100, 100)
    \/ GetBestQuoteRejects(j, "adapter")
    \/ ExecuteSwapResolves(j, 95)
    \/ RemoveActiveOrderStep(j)
    \/ RemoveOrderProgressStep(j)
    \/ CompleteJob(j)
    \/ FailJob(j)

NextPair ==
    \/ \E o \in PairOrders, a \in RequestAmounts : ExecuteOrder(o, a, Undefined)
    \/ \E j \in JobIds : PromoteDelayed(j)
    \/ \E j \in JobIds : WorkerStart(j)
    \/ \E j \in JobIds : PairPipeline(j)
    \/ \E j \in JobIds : Handler(j)
    \/ \E c \in Conns, o \in PairOrders : HandleConnection(c, o)

SpecPair == Init /\ [][NextPair]_vars

(***************************************************************************)
(* SpecLate: one order through its attempts, with the venue calls that     *)
(* withTimeout gave up on.  Promise.race settles with the timer's          *)
(* rejection and the venue's promise stays pending: the call is not        *)
(* cancelled and settles later, while the order's next attempts run or     *)
(* after they have ended.                                                  *)
(***************************************************************************)
VenueCall(j, call) == [job |-> j, attempt |-> AttemptNumber(j), call |-> call]

\* The timer wins the race of `withTimeout(getBestQuote(...), 10000, ...)`.
QuoteTimesOut(j) ==
    /\ j \in DOMAIN proc
    /\ proc[j].pc = "quote"
    /\ "quoteTimeout" \in QuoteRejections
    /\ proc' = [proc EXCEPT ![j].pc = "failedCache",
                            ![j].error = ErrorOf("quoteTimeout")]
    /\ abandoned' = Put(abandoned, VenueCall(j, "quote"), "pending")
    /\ UNCHANGED <<jobs, waiting, hpf, cacheVars, wsVars, db, histVars, router,
                   query, submit>>

\* The timer wins the race of `withTimeout(executeBestSwapWithQuote(...),
\* 30000, ...)`.
SwapTimesOut(j) ==
    /\ j \in DOMAIN proc
    /\ proc[j].pc = "execute"
    /\ "swapTimeout" \in SwapRejections
    /\ proc' = [proc EXCEPT ![j].pc = "failedCache",
                            ![j].error = ErrorOf("swapTimeout")]
    /\ abandoned' = Put(abandoned, VenueCall(j, "swap"), "pending")
    /\ UNCHANGED <<jobs, waiting, hpf, cacheVars, wsVars, db, histVars, router,
                   query, submit>>

\* What the settlement of an abandoned call does to processOrder: the
\* promise of Promise.race is settled already, its reactions to the venue's
\* promise find nothing to do, and the continuation of the await has run
\* with the timeout.
LateSettlement_Resumes(p, c) ==
    IF c.job \in DOMAIN p
    THEN [p EXCEPT ![c.job].pc =
            IF c.call = "quote" THEN StageAfterQuote ELSE StageAfterSwap]
    ELSE p
LateSettlement(p, c) == p

\* An abandoned venue call resolves or rejects.
AbandonedCallSettles(c) ==
    /\ c \in DOMAIN abandoned
    /\ abandoned[c] = "pending"
    /\ abandoned' = [abandoned EXCEPT ![c] = "settled"]
    /\ proc' = LateSettlement(proc, c)
    /\ UNCHANGED <<jobs, waiting, hpf, cacheVars, wsVars, db, histVars, router,
                   query, submit>>

LatePipeline(j) ==
    \/ UpdateOrderProgressStep(j)
    \/ UpdateOrderStatusStep(j)
    \/ \E rp \in RaydiumPrices, mp \in MeteorPrices : GetBestQuoteResolves(j, rp, mp)
    \/ \E ep \in ExecPrices : ExecuteSwapResolves(j, ep)
    \/ QuoteTimesOut(j)
    \/ SwapTimesOut(j)
    \/ RemoveActiveOrderStep(j)
    \/ RemoveOrderProgressStep(j)
    \/ CompleteJob(j)
    \/ FailJob(j)

NextLate ==
    \/ \E o \in SpecOrders, a \in RequestAmounts, ms \in RequestSlippages :
          ExecuteOrder(o, a, ms)
    \/ \E j \in JobIds : PromoteDelayed(j)
    \/ \E j \in JobIds : WorkerStart(j)
    \/ \E j \in JobIds : LatePipeline(j)
    \/ \E j \in JobIds : Handler(j)
    \/ \E c \in DOMAIN abandoned : AbandonedCallSettles(c)

SpecLate == Init /\ [][NextLate]_vars

(***************************************************************************)
(* Properties.                                                             *)
(***************************************************************************)
JobsOf(o) == {j \in DOMAIN jobs : jobs[j].orderId = o}

IsPrefix(s, t) == Len(s) <= Len(t) /\ \A i \in 1..Len(s) : s[i] = t[i]

\* The stages of an attempt: the first one follows the PENDING written at
\* submission, a retry restarts at ROUTING.
StagesOf(o) ==
    IF attemptsStarted[o] <= 1
    THEN <<PENDING, ROUTING, BUILDING, SUBMITTED, CONFIRMED>>
    ELSE <<ROUTING, BUILDING, SUBMITTED, CONFIRMED>>

\* A prefix of the stages, or such a prefix short of CONFIRMED ended by FAILED.
IsAttemptSequence(log, stages) ==
    \/ IsPrefix(log, stages)
    \/ /\ log # <<>>
       /\ log[Len(log)] = FAILED
       /\ IsPrefix(SubSeq(log, 1, Len(log) - 1),
                   SubSeq(stages, 1, Len(stages) - 1))

\* C1: however often addOrderJob is called with an order id while its job is
\* outstanding, the queue holds one job for that id, at most one execution of
\* it is in progress, and the pipeline has run only for that job: once per
\* failed attempt of it, and once more while it is active or completed.
C1_OneJobPerOrderId ==
    \A o \in DOMAIN db :
        /\ Cardinality(JobsOf(o)) = 1
        /\ Cardinality(JobsOf(o) \cap ActiveJobs) <= 1
        /\ \A j \in JobsOf(o) :
              attemptsStarted[o] =
                  jobs[j].attemptsMade
                    + (IF jobs[j].state \in {"active", "completed"} THEN 1 ELSE 0)

\* addOrderJob was called a second time while the job was outstanding, and
\* the job is executing its first attempt.
C1_Witness ==
    /\ 1 \in DOMAIN jobs
    /\ addCalls[1] >= 2
    /\ jobs[1].state = "active"
    /\ attemptsStarted[1] = 1

C3_RetryBound ==
    \A j \in DOMAIN jobs :
        LET o == jobs[j].orderId IN
        /\ attemptsStarted[o] <= MAX_RETRY_ATTEMPTS
        /\ jobs[j].state = "failed" =>
              /\ attemptsStarted[o] = MAX_RETRY_ATTEMPTS
              /\ jobs[j].attemptsMade = MAX_RETRY_ATTEMPTS
              /\ db[o].status = FAILED
              /\ db[o].attempts = MAX_RETRY_ATTEMPTS
        /\ (jobs[j].state \in {"delayed", "waiting"} /\ jobs[j].attemptsMade > 0) =>
              /\ jobs[j].attemptsMade < MAX_RETRY_ATTEMPTS
              /\ attemptsStarted[o] = jobs[j].attemptsMade

\* Every attempt failed, the job is failed and the failure handler is through.
C3_Witness ==
    /\ 1 \in DOMAIN jobs
    /\ jobs[1].state = "failed"
    /\ 1 \in DOMAIN hpf
    /\ hpf[1] = "done"
    /\ attemptsStarted[1] = MAX_RETRY_ATTEMPTS

\* C4: a listener that was connected while the order was still PENDING and
\* is still connected when the order is CONFIRMED has received an
\* order_update for each of ROUTING, BUILDING, SUBMITTED and CONFIRMED.
C4_EveryTransitionBroadcast ==
    \A c \in DOMAIN connections :
        (/\ connections[c].state = "open"
         /\ connections[c].received # <<>>
         /\ connections[c].received[1] = PENDING
         /\ db[connections[c].orderId].status = CONFIRMED)
        => \A st \in {ROUTING, BUILDING, SUBMITTED, CONFIRMED} :
              \E i \in 1..Len(connections[c].received) :
                  connections[c].received[i] = st

\* C5: once processOrder has made its clear calls on the terminal outcome
\* (the job is completed, or failed for good), the cache holds neither an
\* active-order entry nor a progress entry for the order, and the table
\* holds the terminal record.
C5_CacheClearedOnTerminal ==
    \A j \in DOMAIN jobs :
        LET o == jobs[j].orderId IN
        /\ jobs[j].state = "completed" =>
              /\ o \notin activeOrders
              /\ o \notin DOMAIN orderProgress
              /\ db[o].status = CONFIRMED
              /\ db[o].tx_hash
              /\ db[o].executed_price > 0
        /\ jobs[j].state = "failed" =>
              /\ o \notin activeOrders
              /\ o \notin DOMAIN orderProgress
              /\ db[o].status = FAILED
              /\ db[o].error_message # NoError
              /\ db[o].attempts = MAX_RETRY_ATTEMPTS

\* The threshold the order asked for: its maxSlippage whenever it set one,
\* the default otherwise.
RequestedMaxSlippage(maxSlippage) ==
    IF maxSlippage = Undefined THEN defaultMaxSlippage ELSE maxSlippage

\* C6: a swap executed above the quoted price with a slippage greater than
\* the order's maxSlippage (the default when the order set none) is rejected
\* with a slippage error that names the slippage and the maximum, both as
\* percentages with two decimals.
C6_SlippageRejection ==
    LET q == router.best.quote.price
        e == router.executedPrice
        m == RequestedMaxSlippage(router.maxSlippage)
    IN (/\ router.op = "executeBestSwapWithQuote"
        /\ e > q
        /\ (e - q) * 10000 > m * q)
       => /\ router.outcome = "rejected"
          /\ router.error.kind = "slippage"
          /\ router.error.slippage = PercentFixed2(e - q, q)
          /\ router.error.maxAllowed = m

\* C7: a swap executed at or below the quoted price resolves, whatever the
\* maxSlippage, 0 included.
C7_ImprovementNeverRejected ==
    (/\ router.op = "executeBestSwapWithQuote"
     /\ router.executedPrice <= router.best.quote.price)
    => /\ router.outcome = "resolved"
       /\ router.error = NoError

\* A price improvement of an order with maxSlippage = 0 went through.
C7_Witness ==
    /\ router.op = "executeBestSwapWithQuote"
    /\ router.executedPrice < router.best.quote.price
    /\ router.maxSlippage = 0
    /\ router.outcome = "resolved"

C9_QuoteSelectionExample ==
    (/\ router.op # "none"
     /\ router.amount = 100
     /\ router.raydiumQuote = Quote(100, 3)
     /\ router.meteorQuote = Quote(99, 2))
    => router.best = [dex |-> "Meteor", quote |-> Quote(99, 2)]

\* C10: never more than MAX_CONCURRENT_ORDERS jobs are active; the jobs of
\* the other orders submitted are delayed or waiting until one finishes.
C10_ConcurrencyBound ==
    /\ Cardinality(ActiveJobs) <= MAX_CONCURRENT_ORDERS
    /\ \A o \in DOMAIN db :
          \E j \in JobsOf(o) :
              jobs[j].state \in {"delayed", "waiting", "active", "completed"}

\* MAX_CONCURRENT_ORDERS jobs are active and a further job is waiting, while
\* no job has finished yet.
C10_Witness ==
    /\ Cardinality(ActiveJobs) = MAX_CONCURRENT_ORDERS
    /\ waiting # <<>>
    /\ JobsIn("completed") = {}

\* The jobs that are executing processOrder for order o.
ExecutingFor(o) == {j \in DOMAIN proc : jobs[j].orderId = o}

\* C12: at most one attempt of an order executes at a time: the executing
\* job is the order's active job, it is not queued at the same time, and the
\* attempt it executes started after every earlier attempt of the order had
\* ended.
C12_AttemptsSequential ==
    \A o \in DOMAIN db :
        /\ Cardinality(ExecutingFor(o)) <= 1
        /\ \A j \in ExecutingFor(o) :
              /\ jobs[j].state = "active"
              /\ \A i \in 1..Len(waiting) : waiting[i] # j
              /\ attemptsStarted[o] = jobs[j].attemptsMade + 1

\* The third attempt of an order executes, after two attempts that failed
\* and a repeated addOrderJob call.
C12_Witness ==
    /\ 1 \in DOMAIN proc
    /\ jobs[1].attemptsMade = 2
    /\ addCalls[1] >= 2
    /\ proc[1].pc = "execute"

\* The connections that handleConnection adds in this step.
NewConnections == {c \in DOMAIN connections' : c \notin DOMAIN connections}

\* C13: a listener that connects when the order's record is already
\* CONFIRMED (no cache entry has expired: the model lets none expire)
\* receives the CONFIRMED snapshot as its first message, at once.
C13_LateSubscriberCatchUp ==
    [][\A c \in NewConnections :
          db[connections'[c].orderId].status = CONFIRMED
          => /\ connections'[c].received # <<>>
             /\ connections'[c].received[1] = CONFIRMED]_vars

HandlerFinishes == {j \in DOMAIN hpf' : hpf'[j] = "done" /\ hpf[j] # "done"}

\* C15: when handlePermanentFailure has run for an order, the table holds
\* the terminal FAILED record (permanent-failure message, attempts ==
\* MAX_RETRY_ATTEMPTS, failure reason), the cache holds no active-order
\* entry, no progress entry and no websocket registration for the order,
\* and the job is failed, not queued for another attempt.
C15_PermanentFailureCleansUp ==
    [][\A j \in HandlerFinishes :
          LET o == jobs'[j].orderId IN
          /\ db'[o].status = FAILED
          /\ db'[o].error_message.permanent
          /\ db'[o].attempts = MAX_RETRY_ATTEMPTS
          /\ db'[o].failure_reason # NoError
          /\ jobs'[j].state = "failed"
          /\ o \notin activeOrders'
          /\ o \notin DOMAIN orderProgress'
          /\ o \notin DOMAIN wsConnections']_vars

\* The record is terminal: CONFIRMED, or FAILED by the last permitted attempt.
TerminalRecord(r) ==
    \/ r.status = CONFIRMED
    \/ r.status = FAILED /\ r.attempts = MAX_RETRY_ATTEMPTS

\* C16: once the record of an order is CONFIRMED, or FAILED with the
\* attempts exhausted, no step changes any field of it.
C16_TerminalRecordImmutable ==
    [][\A o \in DOMAIN db :
          TerminalRecord(db[o]) => (o \in DOMAIN db' /\ db'[o] = db[o])]_vars

\* C17: the attempts column of every order record is at least 1 and at most
\* MAX_RETRY_ATTEMPTS.
C17_AttemptsInRange ==
    \A o \in DOMAIN db :
        /\ db[o].attempts >= 1
        /\ db[o].attempts <= MAX_RETRY_ATTEMPTS

\* The last permitted attempt succeeded and persisted attempts ==
\* MAX_RETRY_ATTEMPTS with the CONFIRMED record.
C17_Witness ==
    /\ 1 \in DOMAIN db
    /\ db[1].status = CONFIRMED
    /\ db[1].attempts = MAX_RETRY_ATTEMPTS
    /\ attemptsStarted[1] = MAX_RETRY_ATTEMPTS

\* The snapshot is a terminal one: CONFIRMED, or the FAILED of the last
\* permitted attempt.
TerminalSnapshot(p) ==
    \/ p.status = CONFIRMED
    \/ p.status = FAILED /\ p.attempts >= MAX_RETRY_ATTEMPTS

\* C18: whenever the cache holds a terminal snapshot of an order, the table
\* already records that outcome: the same terminal status, with the attempts
\* exhausted when it is FAILED.
C18_CacheNeverAheadOnTerminal ==
    \A o \in DOMAIN orderProgress :
        TerminalSnapshot(orderProgress[o])
        => /\ db[o].status = orderProgress[o].status
           /\ TerminalRecord(db[o])

C20_CacheMissFallsBackToStore ==
    [][\A o \in QueryOrders :
          (query' # query /\ query'.orderId = o /\ o \notin activeOrders)
          => IF o \in DOMAIN db
             THEN /\ query'.code = 200
                  /\ query'.status = db[o].status
                  /\ query'.error = db[o].error_message
             ELSE query'.code = 404]_vars

\* The order is being executed, its cache entries are gone, and the query
\* was answered from the table with the stage the order is in.
C20_Witness ==
    /\ 1 \in DOMAIN proc
    /\ 1 \notin activeOrders
    /\ 1 \notin DOMAIN orderProgress
    /\ query.orderId = 1
    /\ query.source = "store"
    /\ query.code = 200
    /\ query.status = SUBMITTED
    /\ db[1].status = SUBMITTED

\* The order reached a terminal state: its job completed and its record is
\* CONFIRMED, or its job failed for good and its record is the final FAILED.
OrderTerminal(o) ==
    /\ o \in DOMAIN db
    /\ \E j \in JobsOf(o) :
          \/ jobs[j].state = "completed" /\ db[o].status = CONFIRMED
          \/ /\ jobs[j].state = "failed"
             /\ db[o].status = FAILED
             /\ db[o].attempts = MAX_RETRY_ATTEMPTS

\* C11: under fair scheduling every submitted order eventually reaches a
\* terminal state, CONFIRMED or final FAILED, whatever the venue does for
\* it, also when more orders are submitted than the worker runs at a time:
\* again and again every order submitted so far is terminal, so no order
\* stays short of a terminal state for ever.
C11_EveryOrderTerminates ==
    []<>(\A o \in DOMAIN db : OrderTerminal(o))

\* More orders than MAX_CONCURRENT_ORDERS were submitted and all of them are
\* terminal: the first one CONFIRMED, the last one FAILED after a timeout of
\* its last attempt.
C11_Witness ==
    /\ Cardinality(DOMAIN db) > MAX_CONCURRENT_ORDERS
    /\ \A o \in DOMAIN db : OrderTerminal(o)
    /\ db[1].status = CONFIRMED
    /\ db[NumOrders].status = FAILED
    /\ db[NumOrders].error_message.kind = "swapTimeout"

\* The order whose status query is answered from the active-order entry in
\* this step.
CacheAnswered ==
    {o \in QueryOrders :
        query' # query /\ query'.orderId = o /\ query'.source = "cache"}

\* C21: while the active-order entry of an order exists it holds the latest
\* progress the pipeline produced for the order, so a status query answered
\* from it returns the status of the order's current progress snapshot.
C21_ActiveOrderEntryIsLatest ==
    [][\A o \in CacheAnswered :
          o \in DOMAIN orderProgress
          => query'.status = orderProgress[o].status]_vars

\* C22: a call of broadcastOrderUpdate(orderId, progress) appends the update
\* exactly once to what every listener has received that is registered for
\* orderId and whose connection is open, and leaves every other listener,
\* those registered for a different order among them, with what it had.
C22_BroadcastToRegisteredOpenOnly ==
    [][\A o \in BroadcastOrders, s \in BroadcastStatuses :
          BroadcastOrderUpdate(o, s)
          => \A c \in DOMAIN connections :
                /\ connections'[c].received =
                      IF /\ c \in getWebSocketConnections(o)
                         /\ connections[c].state = "open"
                      THEN Append(connections[c].received, s)
                      ELSE connections[c].received
                /\ connections[c].orderId # o
                   => connections'[c].received = connections[c].received]_vars

\* An open listener of order 1 got the snapshot and then the broadcast update
\* while an open listener of order 2 and a closed listener of order 1 have
\* only their snapshot.
C22_Witness ==
    \E c1, c2, c3 \in DOMAIN connections :
        /\ connections[c1].orderId = 1 /\ connections[c1].state = "open"
        /\ connections[c1].received = <<PENDING, ROUTING>>
        /\ connections[c2].orderId = 2 /\ connections[c2].state = "open"
        /\ connections[c2].received = <<PENDING>>
        /\ connections[c3].orderId = 1 /\ connections[c3].state = "closed"
        /\ connections[c3].received = <<PENDING>>

\* The listeners registered for order o to which sendMessage cannot deliver:
\* their connection is not in the map (or not open).
Stale(o) ==
    {c \in getWebSocketConnections(o) :
        c \notin DOMAIN connections \/ connections[c].state # "open"}

\* C23: a broadcast that meets a registered listener that is gone completes,
\* and leaves that listener out of the subscription registry of the order.
C23_StaleListenerPruned ==
    [][\A o \in BroadcastOrders, s \in BroadcastStatuses :
          BroadcastOrderUpdate(o, s)
          => \A c \in Stale(o) :
                c \notin (IF o \in DOMAIN wsConnections'
                          THEN wsConnections'[o] ELSE {})]_vars

\* C24: a connected listener is in the subscription registry of its order,
\* and a listener whose connection closed or raised an error is in neither
\* the connection map nor the registry.
C24_RegisteredWhileConnected ==
    \A c \in DOMAIN connections :
        LET o == connections[c].orderId IN
        /\ connections[c].state = "open" => c \in getWebSocketConnections(o)
        /\ connections[c].state # "open" => c \notin getWebSocketConnections(o)

\* C25: an attempt that follows a failed one starts over at ROUTING with no
\* quote; until its own getBestQuote call has resolved it holds no quote, and
\* the quote it executes with is the one it selected itself, the one its own
\* BUILDING write persisted.
C25_RetryRestartsAtRouting ==
    \A j \in DOMAIN proc :
        LET o == OrderOf(j)
            log == cacheLog[o]
        IN /\ AttemptNumber(j) > 0
              => IF log = <<>> THEN proc[j].pc = "routingCache"
                 ELSE log[1] = ROUTING
           /\ proc[j].pc \in {"routingCache", "routingDb", "quote"}
              => proc[j].bestQuote = NoQuote
           /\ proc[j].pc = "execute"
              => /\ proc[j].bestQuote # NoQuote
                 /\ db[o].quote_dex = proc[j].bestQuote.dex
                 /\ db[o].quote_price = proc[j].bestQuote.quote.price

\* The second attempt selected Meteor while the record still holds Raydium,
\* the quote of the first attempt, which failed after its BUILDING write.
C25_Witness ==
    /\ 1 \in DOMAIN proc
    /\ AttemptNumber(1) = 1
    /\ proc[1].pc = "buildingDb"
    /\ proc[1].bestQuote.dex = "Meteor"
    /\ db[1].quote_dex = "Raydium"
    /\ db[1].status = ROUTING
    /\ db[1].attempts = 1

\* The error is the rejection of withTimeout's timer.
TimedOut(error) == error.kind \in {"quoteTimeout", "swapTimeout"}

\* C26: an attempt whose venue call timed out ends with the FAILED record
\* carrying the timeout message and is retried or final like any failed
\* attempt (delayed while attempts remain, failed otherwise); and a job that
\* waits for a venue that may never answer does not wait forever: the
\* attempt ends.
C26_TimeoutIsRetryableFailure ==
    /\ [][\A j \in DOMAIN proc :
             (proc[j].pc = "throw" /\ j \notin DOMAIN proc'
                                   /\ TimedOut(proc[j].error))
             => /\ db[OrderOf(j)].status = FAILED
                /\ db[OrderOf(j)].error_message = proc[j].error
                /\ jobs'[j].failedReason = proc[j].error
                /\ jobs'[j].state =
                      IF AttemptNumber(j) + 1 < MAX_RETRY_ATTEMPTS
                      THEN "delayed" ELSE "failed"]_vars
    /\ \A j \in FaultyJobs :
          (j \in DOMAIN proc /\ proc[j].pc \in {"quote", "execute"})
          ~> (j \notin DOMAIN proc)

\* The last job's swap call timed out on its first attempt, the job waits
\* for its retry, and the record is FAILED with the timeout message.
C26_Witness ==
    /\ NumOrders \in DOMAIN jobs
    /\ jobs[NumOrders].state = "delayed"
    /\ jobs[NumOrders].attemptsMade = 1
    /\ jobs[NumOrders].failedReason = ErrorOf("swapTimeout")
    /\ db[NumOrders].status = FAILED
    /\ db[NumOrders].error_message = ErrorOf("swapTimeout")

\* The jobs whose failed attempt ends (processOrder throws) in this step.
AttemptThrows == {j \in DOMAIN proc : proc[j].pc = "throw" /\ j \notin DOMAIN proc'}

\* The jobs whose failed attempt removes a cache entry in this step.
FailedAttemptRemoves ==
    {j \in DOMAIN proc :
        /\ proc[j].error # NoError
        /\ \/ OrderOf(j) \in activeOrders /\ OrderOf(j) \notin activeOrders'
           \/ /\ OrderOf(j) \in DOMAIN orderProgress
              /\ OrderOf(j) \notin DOMAIN orderProgress'}

\* C27: when a failed attempt that is not the last permitted one ends, both
\* cache entries of the order are in place and the progress entry is the
\* FAILED snapshot with willRetry = true; when the last permitted one ends,
\* both are removed; and a failed attempt removes a cache entry only when it
\* is the last permitted one, after it wrote the FAILED snapshot with
\* willRetry = false.
C27_CacheKeptUntilFinalAttempt ==
    [][/\ \A j \in AttemptThrows :
             LET o == OrderOf(j) IN
             IF AttemptNumber(j) + 1 < MAX_RETRY_ATTEMPTS
             THEN /\ o \in activeOrders' /\ o \in DOMAIN orderProgress'
                  /\ orderProgress'[o].status = FAILED
                  /\ orderProgress'[o].willRetry
                  /\ orderProgress'[o].attempts = AttemptNumber(j) + 1
             ELSE o \notin activeOrders' /\ o \notin DOMAIN orderProgress'
       /\ \A j \in FailedAttemptRemoves :
             /\ AttemptNumber(j) + 1 = MAX_RETRY_ATTEMPTS
             /\ cacheLog[OrderOf(j)][Len(cacheLog[OrderOf(j)])] = FAILED
             /\ OrderOf(j) \in DOMAIN orderProgress
                => /\ orderProgress[OrderOf(j)].status = FAILED
                   /\ ~orderProgress[OrderOf(j)].willRetry]_vars

\* The first attempt failed and the job waits for its retry: both cache
\* entries are there and the snapshot is FAILED with willRetry = true.
C27_Witness ==
    /\ 1 \in DOMAIN jobs
    /\ jobs[1].state = "delayed"
    /\ jobs[1].attemptsMade = 1
    /\ 1 \in activeOrders
    /\ 1 \in DOMAIN orderProgress
    /\ orderProgress[1].status = FAILED
    /\ orderProgress[1].willRetry

\* C28: a CONFIRMED record holds the txHash, the executed price, the
\* slippage and the attempt number of the attempt that succeeded, the last
\* one started, and no error message, whatever earlier attempts wrote.
C28_ConfirmedRecordIsClean ==
    \A o \in DOMAIN db :
        db[o].status = CONFIRMED
        => /\ db[o].tx_hash
           /\ db[o].executed_price \in ExecPrices
           /\ db[o].slippage = AbsSlippage(db[o].quote_price,
                                           db[o].executed_price)
           /\ db[o].attempts = attemptsStarted[o]
           /\ db[o].error_message = NoError

\* The order was confirmed by its second attempt, after a first attempt
\* that wrote its failure message to the record.
C28_Witness ==
    /\ 1 \in DOMAIN db
    /\ db[1].status = CONFIRMED
    /\ db[1].attempts = 2
    /\ db[1].error_message = NoError
    /\ jobs[1].failedReason # NoError

\* The first attempt of job j has not written anything yet: the job is still
\* queued, or processOrder is at its first statement.
BeforeFirstWrite(j) ==
    \/ attemptsStarted[OrderOf(j)] = 0
    \/ /\ attemptsStarted[OrderOf(j)] = 1
       /\ j \in DOMAIN proc
       /\ proc[j].pc = "routingCache"

\* C29: once the job of an order exists the record of the order exists, and
\* until the first attempt's first write the record is PENDING and the cache
\* holds the PENDING snapshot and the active-order entry; the first write to
\* the cache and the first write to the table of every order are PENDING, so
\* the ROUTING writes come after them.
C29_PendingBeforeRouting ==
    \A j \in DOMAIN jobs :
        LET o == OrderOf(j) IN
        /\ o \in DOMAIN db
        /\ BeforeFirstWrite(j)
           => /\ db[o].status = PENDING
              /\ o \in DOMAIN orderProgress
              /\ orderProgress[o].status = PENDING
              /\ o \in activeOrders
        /\ attemptsStarted[o] <= 1
           => /\ cacheLog[o] # <<>> /\ cacheLog[o][1] = PENDING
              /\ dbLog[o] # <<>> /\ dbLog[o][1] = PENDING

\* The first attempt has written ROUTING to the cache and is about to write it
\* to the table, which still holds PENDING.
C29_Witness ==
    /\ 1 \in DOMAIN proc
    /\ attemptsStarted[1] = 1
    /\ proc[1].pc = "routingDb"
    /\ cacheLog[1] = <<PENDING, ROUTING>>
    /\ dbLog[1] = <<PENDING>>
    /\ db[1].status = PENDING
    /\ orderProgress[1].status = ROUTING

\* C31: a cache write or cache delete of an attempt that fails does not end
\* the attempt: processOrder goes on with the statement that follows the
\* cache operation, the table write of the same status after a cache write.
C31_CacheFailureIsHarmless ==
    [][\A j \in DOMAIN proc :
          /\ UpdateOrderProgressFails(j)
             => proc'[j].pc = AfterCache(proc[j].pc)
          /\ RemoveFails(j)
             => proc'[j].pc \in {"removeProgress", "return", "throw"}
                /\ proc'[j].error = proc[j].error]_vars

\* The position of a status in an attempt; FAILED and CONFIRMED end it.
StageRank(status) ==
    CASE status = PENDING -> 0
      [] status = ROUTING -> 1
      [] status = BUILDING -> 2
      [] status = SUBMITTED -> 3
      [] status \in {CONFIRMED, FAILED} -> 4

Entry(f, k) == IF k \in DOMAIN f THEN <<f[k]>> ELSE <<>>

\* This step leaves the cache entries, the record, the job and the
\* subscription set of order p as they are (job ids are order ids).
OrderUntouched(p) ==
    /\ (p \in activeOrders') = (p \in activeOrders)
    /\ Entry(orderProgress', p) = Entry(orderProgress, p)
    /\ Entry(db', p) = Entry(db, p)
    /\ Entry(jobs', p) = Entry(jobs, p)
    /\ Entry(proc', p) = Entry(proc, p)
    /\ Entry(hpf', p) = Entry(hpf, p)
    /\ Entry(wsConnections', p) = Entry(wsConnections, p)

\* C33: a step of the queue, of processOrder or of handlePermanentFailure
\* for the job of one order (promotion, start, a write, a venue result, a
\* removal, completion, failure with or without retry) changes nothing of
\* any other order.
C33_OtherOrdersUntouched ==
    [][\A j \in DOMAIN jobs :
          (PromoteDelayed(j) \/ WorkerStart(j) \/ PairPipeline(j) \/ Handler(j))
          => \A p \in PairOrders \ {OrderOf(j)} : OrderUntouched(p)]_vars

\* Both orders are in the worker: order 1 in its third attempt after two
\* failures, order 2 waiting for its swap, with a listener subscribed.
C33_Witness ==
    /\ 1 \in DOMAIN proc /\ 2 \in DOMAIN proc
    /\ jobs[1].attemptsMade = 2
    /\ proc[1].pc = "failedDb"
    /\ proc[2].pc = "execute"
    /\ db[2].status = SUBMITTED
    /\ 2 \in DOMAIN wsConnections

\* An earlier attempt of job j ended with the slippage rejection, which
\* executeBestSwapWithQuote raises after executeSwap has returned its
\* result: the venue has executed a swap for the order.
SwapExecutedBefore(j) == jobs[j].failedReason.kind = "slippage"

\* C34: the venue executes at most one swap per order: executeSwap never
\* returns a result for an order for which it has returned one before.
C34_SwapExecutedAtMostOnce ==
    [][\A j \in DOMAIN proc :
          (\E ep \in ExecPrices : ExecuteSwapResolves(j, ep))
          => ~SwapExecutedBefore(j)]_vars

RemovedForTerminal(o) ==
    /\ o \notin DOMAIN orderProgress
    /\ o \notin activeOrders
    /\ \E j \in DOMAIN jobs :
          /\ jobs[j].orderId = o
          /\ jobs[j].state \in {"completed", "failed"}

\* C36: once the cache entries of an order have been removed for a terminal
\* outcome (CONFIRMED or the last failed attempt), no later step writes a
\* cache entry for that order again.
C36_NoCacheWriteAfterTerminalRemoval ==
    [][\A o \in DOMAIN db :
          RemovedForTerminal(o) =>
              /\ o \notin DOMAIN orderProgress'
              /\ o \notin activeOrders']_vars

\* The step writes the progress cache entry of order o.
CacheWritten(o) ==
    /\ o \in DOMAIN orderProgress'
    /\ o \notin DOMAIN orderProgress \/ orderProgress'[o] # orderProgress[o]

\* C37: while the progress cache entry of an order exists, the status in the
\* durable store is the cached status or the status written to the cache
\* immediately before it.  Step by step: a cache write finds the store at the
\* status the cache held (at the new status if the cache held none), so the
\* cache gets no more than one transition ahead; a status change in the store
\* arrives at the cached status, so the store never passes the cache.
C37_CacheAtMostOneAhead ==
    [][\A o \in DOMAIN db' :
          /\ CacheWritten(o) =>
                db'[o].status = IF o \in DOMAIN orderProgress
                                THEN orderProgress[o].status
                                ELSE orderProgress'[o].status
          /\ (/\ o \in DOMAIN db
              /\ db'[o].status # db[o].status
              /\ o \in DOMAIN orderProgress')
                => db'[o].status = orderProgress'[o].status]_vars

\* A retry has written ROUTING to the cache and not yet to the store, which
\* holds FAILED from the attempt before.
C37_Witness ==
    \E o \in DOMAIN orderProgress :
        /\ orderProgress[o].status = ROUTING
        /\ db[o].status = FAILED

\* C38: the slippage threshold executeBestSwapWithQuote applies to an order
\* is the max_slippage its durable record got at submission, also when the
\* request left maxSlippage unset.
C38_AppliedThresholdIsPersisted ==
    \A j \in DOMAIN proc :
        proc[j].pc = "execute" =>
            MaxAllowedSlippage(jobs[j].maxSlippage) = db[OrderOf(j)].max_slippage

\* The worker treated the attempt of job j that is being thrown as the final
\* one: its catch block has removed both cache entries of the order.
WorkerCleared(j) ==
    /\ OrderOf(j) \notin DOMAIN orderProgress
    /\ OrderOf(j) \notin activeOrders

\* C39: the worker and the scheduler agree on the final attempt.  The worker
\* clears the cache after a FAILED write exactly if that write reported
\* willRetry = false; when the attempt is thrown the scheduler starts the
\* permanent-failure handler and schedules no retry exactly if the worker
\* cleared the cache, and otherwise the entry says willRetry; the handler
\* runs only for a job that is failed with all attempts made and whose order
\* was not CONFIRMED.
C39_WorkerAndSchedulerAgree ==
    [][/\ \A j \in DOMAIN proc :
             (/\ proc[j].pc = "failedDb"
              /\ j \in DOMAIN proc'
              /\ proc'[j].pc # "failedDb") =>
                 (proc'[j].pc = "removeActive"
                      <=> ~orderProgress[OrderOf(j)].willRetry)
       /\ \A j \in AttemptThrows :
             /\ WorkerCleared(j) <=> (j \in DOMAIN hpf' /\ j \notin DOMAIN hpf)
             /\ WorkerCleared(j) <=> jobs'[j].state = "failed"
             /\ ~WorkerCleared(j) <=> jobs'[j].state = "delayed"
             /\ ~WorkerCleared(j) => orderProgress[OrderOf(j)].willRetry
       /\ \A j \in DOMAIN hpf' :
             /\ jobs'[j].state = "failed"
             /\ jobs'[j].attemptsMade = MAX_RETRY_ATTEMPTS
             /\ attemptsStarted'[OrderOf(j)] = MAX_RETRY_ATTEMPTS
             /\ db'[OrderOf(j)].status # CONFIRMED
             /\ CONFIRMED \notin {dbLog'[OrderOf(j)][i] :
                                     i \in 1..Len(dbLog'[OrderOf(j)])}]_vars

\* The last attempt has been thrown after the worker cleared the cache, and
\* the permanent-failure handler has been started and has not run yet.
C39_Witness ==
    \E j \in DOMAIN hpf :
        /\ hpf[j] = "progress"
        /\ jobs[j].state = "failed"
        /\ OrderOf(j) \notin DOMAIN orderProgress
        /\ OrderOf(j) \notin activeOrders

====
